---- MODULE Spec2Model ----
(***************************************************************************)
(* mkjson: the move-only JSON value (mk::json::JSON) and the               *)
(* pointer-addressed accessors (swap_value_at / movein) built on           *)
(* nlohmann::json.                                                          *)
(*                                                                          *)
(* A JSON document is a record with one field per payload kind, so that    *)
(* two documents of different kinds can always be compared:                *)
(*   kind : "null" | "boolean" | "int64" | "float64" | "string" |          *)
(*          "array" | "object"                                             *)
(*   b    : the boolean payload                                            *)
(*   n    : the number payload (a float64 is its value times 10^4)         *)
(*   s    : the string payload, a sequence of bytes                        *)
(*   a    : the array payload, a sequence of documents                     *)
(*   o    : the object payload, a function from keys (byte sequences)      *)
(*          to documents                                                   *)
(***************************************************************************)
EXTENDS Integers, Sequences, FiniteSets, TLC

VARIABLES val, call, pre, given, tree, target, pcall, ppre

vars == <<val, call, pre, given, tree, target, pcall, ppre>>

\* The variables of the pointer layer: the tree, the caller's variable, the
\* last swap_value_at call, and the tree and variable as that call found them.
ptrvars == <<tree, target, pcall, ppre>>

\* The variables of the Value layer: the Values, the last call and its
\* Result, the Values as that call found them, and what the caller gave (the
\* bytes under test in the string layer, the movein in the move-in layer).
valvars == <<val, call, pre, given>>

\* The bound of the Value layer: the number of JSON nodes the Values hold
\* together (a null Value holds none).
MaxNodes == 3

\* The bound of the string layer: the longest byte sequence handed to a
\* string setter.
MaxStrLen == 3

-----------------------------------------------------------------------------
(* Documents *)

JNull == [kind |-> "null", b |-> FALSE, n |-> 0, s |-> <<>>, a |-> <<>>, o |-> <<>>]

JBool(x) == [JNull EXCEPT !.kind = "boolean", !.b = x]

JInt(x) == [JNull EXCEPT !.kind = "int64", !.n = x]

JFloat(x) == [JNull EXCEPT !.kind = "float64", !.n = x]

JStr(x) == [JNull EXCEPT !.kind = "string", !.s = x]

JArr(x) == [JNull EXCEPT !.kind = "array", !.a = x]

JObj(x) == [JNull EXCEPT !.kind = "object", !.o = x]

\* The function f with key k mapped to v (k added when absent).
Put(f, k, v) == [x \in (DOMAIN f) \cup {k} |-> IF x = k THEN v ELSE f[x]]

\* The function f without key k.
Drop(f, k) == [x \in (DOMAIN f) \ {k} |-> f[x]]

RECURSIVE SumSeq(_)
SumSeq(q) == IF q = <<>> THEN 0 ELSE Head(q) + SumSeq(Tail(q))

RECURSIVE SumFun(_)
SumFun(f) ==
  IF DOMAIN f = {} THEN 0
  ELSE LET k == CHOOSE x \in DOMAIN f : TRUE IN f[k] + SumFun(Drop(f, k))

\* The number of nodes of document t.
RECURSIVE Size(_)
Size(t) ==
  1 + (IF t.kind = "array" THEN SumSeq([i \in DOMAIN t.a |-> Size(t.a[i])])
       ELSE IF t.kind = "object" THEN SumFun([k \in DOMAIN t.o |-> Size(t.o[k])])
       ELSE 0)

Weight(t) == IF t.kind = "null" THEN 0 ELSE Size(t)

-----------------------------------------------------------------------------
(* The string policy's collaborators: mk::data::contains_valid_utf8 and    *)
(* mk::data::base64_encode.                                                 *)

IsCont(x) == x >= 128 /\ x <= 191

\* Whether byte sequence s is well-formed UTF-8 (RFC 3629).
RECURSIVE contains_valid_utf8(_)
contains_valid_utf8(s) ==
  IF s = <<>> THEN TRUE
  ELSE LET c == s[1]
           n == Len(s)
           rest(k) == SubSeq(s, k + 1, n)
       IN IF c <= 127 THEN contains_valid_utf8(rest(1))
          ELSE IF c >= 194 /\ c <= 223
            THEN n >= 2 /\ IsCont(s[2]) /\ contains_valid_utf8(rest(2))
          ELSE IF c >= 224 /\ c <= 239
            THEN /\ n >= 3
                 /\ IsCont(s[2])
                 /\ IsCont(s[3])
                 /\ (c = 224 => s[2] >= 160)
                 /\ (c = 237 => s[2] <= 159)
                 /\ contains_valid_utf8(rest(3))
          ELSE IF c >= 240 /\ c <= 244
            THEN /\ n >= 4
                 /\ IsCont(s[2])
                 /\ IsCont(s[3])
                 /\ IsCont(s[4])
                 /\ (c = 240 => s[2] >= 144)
                 /\ (c = 244 => s[2] <= 143)
                 /\ contains_valid_utf8(rest(4))
          ELSE FALSE

\* The base64 character of the 6-bit value x, as its ASCII code.
B64Char(x) ==
  IF x < 26 THEN 65 + x
  ELSE IF x < 52 THEN 97 + (x - 26)
  ELSE IF x < 62 THEN 48 + (x - 52)
  ELSE IF x = 62 THEN 43
  ELSE 47

\* The base64 text (RFC 4648, with padding) of byte sequence s.
RECURSIVE base64_encode(_)
base64_encode(s) ==
  IF s = <<>> THEN <<>>
  ELSE IF Len(s) = 1
    THEN <<B64Char(s[1] \div 4), B64Char((s[1] % 4) * 16), 61, 61>>
  ELSE IF Len(s) = 2
    THEN <<B64Char(s[1] \div 4),
           B64Char((s[1] % 4) * 16 + (s[2] \div 16)),
           B64Char((s[2] % 16) * 4),
           61>>
  ELSE <<B64Char(s[1] \div 4),
         B64Char((s[1] % 4) * 16 + (s[2] \div 16)),
         B64Char((s[2] % 16) * 4 + (s[3] \div 64)),
         B64Char(s[3] % 64)>>
       \o base64_encode(SubSeq(s, 4, Len(s)))

-----------------------------------------------------------------------------
(* The nlohmann::json operations the Value type calls *)

\* json.at(key): a reference to the member at key; throws when json is not an
\* object (type_error.304) or has no such key (out_of_range.403).
json_at(json, key) ==
  IF json.kind # "object" THEN [ok |-> FALSE, what |-> "type_error.304"]
  ELSE IF key \notin DOMAIN json.o THEN [ok |-> FALSE, what |-> "out_of_range.403"]
  ELSE [ok |-> TRUE, what |-> ""]

\* json[key]: a reference to the member at key; a null json first becomes an
\* empty object, an absent key is inserted holding null, and any other kind
\* throws (type_error.305). "json" is the document after the call.
json_index(json, key) ==
  IF json.kind = "null" THEN [ok |-> TRUE, what |-> "", json |-> JObj(Put(<<>>, key, JNull))]
  ELSE IF json.kind = "object"
    THEN [ok |-> TRUE, what |-> "",
          json |-> IF key \in DOMAIN json.o THEN json ELSE JObj(Put(json.o, key, JNull))]
  ELSE [ok |-> FALSE, what |-> "type_error.305", json |-> json]

\* Every string of document t, member names included.
RECURSIVE Strings(_)
Strings(t) ==
  IF t.kind = "string" THEN {t.s}
  ELSE IF t.kind = "array" THEN UNION {Strings(t.a[i]) : i \in DOMAIN t.a}
  ELSE IF t.kind = "object"
    THEN (DOMAIN t.o) \cup UNION {Strings(t.o[k]) : k \in DOMAIN t.o}
  ELSE {}

\* json.dump(): throws (type_error.316) on a string or member name that is not
\* valid UTF-8. The text it returns is not modelled.
json_dump(json) ==
  IF \A s \in Strings(json) : contains_valid_utf8(s)
  THEN [ok |-> TRUE, what |-> ""]
  ELSE [ok |-> FALSE, what |-> "type_error.316"]

-----------------------------------------------------------------------------
(* mk::json::JSON: each method as a function of the receiver's document     *)
(* (and of the argument's), giving the Result and the documents afterwards  *)

Good(v) == [good |-> TRUE, failure |-> "", value |-> v]

Bad(msg, dflt) == [good |-> FALSE, failure |-> msg, value |-> dflt]

\* JSON::JSON(JSON &&other): the new Value starts null and swaps with other.
move_construct(other) == [self |-> other, other |-> JNull]

\* A move assignment that resets the source instead of swapping.
move_assign_nulls(self, other) == [self |-> other, other |-> JNull]

\* JSON::operator=(JSON &&other): the two Values swap.
move_assign(self, other) == [self |-> other, other |-> self]

is_array(self) == self.kind = "array"

is_boolean(self) == self.kind = "boolean"

is_float64(self) == self.kind = "float64"

is_int64(self) == self.kind = "int64"

is_null(self) == self.kind = "null"

is_object(self) == self.kind = "object"

is_string(self) == self.kind = "string"

dump(self) ==
  LET r == json_dump(self)
  IN [res |-> IF r.ok THEN Good(JNull) ELSE Bad(r.what, JStr(<<>>)), self |-> self]

\* A get_value_at that forgets erase(key): the moved-from member stays.
get_value_at_no_erase(self, key) ==
  LET r == json_at(self, key)
  IN IF r.ok
     THEN [res |-> Good(self.o[key]), self |-> JObj(Put(self.o, key, JNull))]
     ELSE [res |-> Bad(r.what, JNull), self |-> self]

\* A get_value_at that hands the member out and keeps it too.
get_value_at_shares(self, key) ==
  LET r == json_at(self, key)
  IN IF r.ok
     THEN [res |-> Good(self.o[key]), self |-> self]
     ELSE [res |-> Bad(r.what, JNull), self |-> self]

get_value_at(self, key) ==
  LET r == json_at(self, key)
  IN IF r.ok
     THEN [res |-> Good(self.o[key]), self |-> JObj(Drop(self.o, key))]
     ELSE [res |-> Bad(r.what, JNull), self |-> self]

\* A get_value_array that forgets to reset the receiver: the moved-from
\* entries stay.
get_value_array_keeps(self) ==
  IF self.kind # "array" THEN [res |-> Bad("Not an array", JArr(<<>>)), self |-> self]
  ELSE [res |-> Good(JArr(self.a)), self |-> JArr([i \in DOMAIN self.a |-> JNull])]

get_value_array(self) ==
  IF self.kind # "array" THEN [res |-> Bad("Not an array", JArr(<<>>)), self |-> self]
  ELSE [res |-> Good(JArr(self.a)), self |-> JNull]

get_value_boolean(self) ==
  IF self.kind # "boolean" THEN [res |-> Bad("Not a boolean", JBool(FALSE)), self |-> self]
  ELSE [res |-> Good(JBool(self.b)), self |-> JNull]

get_value_float64(self) ==
  IF self.kind # "float64" THEN [res |-> Bad("Not a float64", JFloat(0)), self |-> self]
  ELSE [res |-> Good(JFloat(self.n)), self |-> JNull]

\* A get_value_int64 that takes any number.
get_value_int64_any_number(self) ==
  IF self.kind \notin {"int64", "float64"}
  THEN [res |-> Bad("Not an int64", JInt(0)), self |-> self]
  ELSE [res |-> Good(JInt(self.n)), self |-> JNull]

get_value_int64(self) ==
  IF self.kind # "int64" THEN [res |-> Bad("Not an int64", JInt(0)), self |-> self]
  ELSE [res |-> Good(JInt(self.n)), self |-> JNull]

get_value_string(self) ==
  IF self.kind # "string" THEN [res |-> Bad("Not a string", JStr(<<>>)), self |-> self]
  ELSE [res |-> Good(JStr(self.s)), self |-> JNull]

\* A set_value_at that resets the argument instead of swapping.
set_value_at_consumes(self, key, value) ==
  LET r == json_index(self, key)
  IN IF r.ok
     THEN [res |-> Good(JNull), self |-> JObj(Put(r.json.o, key, value)), value |-> JNull]
     ELSE [res |-> Bad(r.what, JNull), self |-> self, value |-> value]

\* A set_value_at that makes an object of any receiver that is not one.
set_value_at_unchecked(self, key, value) ==
  LET o == IF self.kind = "object" THEN self.o ELSE <<>>
  IN [res |-> Good(JNull),
      self |-> JObj(Put(o, key, value)),
      value |-> IF key \in DOMAIN o THEN o[key] ELSE JNull]

\* A set_value_at that assigns a one-member object to the receiver.
set_value_at_fresh(self, key, value) ==
  LET r == json_index(self, key)
  IN IF r.ok
     THEN [res |-> Good(JNull),
           self |-> JObj(Put(<<>>, key, value)),
           value |-> r.json.o[key]]
     ELSE [res |-> Bad(r.what, JNull), self |-> self, value |-> value]

\* std::swap(value.impl->nlohmann_json, impl->nlohmann_json[key])
set_value_at(self, key, value) ==
  LET r == json_index(self, key)
  IN IF r.ok
     THEN [res |-> Good(JNull),
           self |-> JObj(Put(r.json.o, key, value)),
           value |-> r.json.o[key]]
     ELSE [res |-> Bad(r.what, JNull), self |-> self, value |-> value]

\* value is the documents of the vector's entries, in order.
set_value_array(self, value) == JArr(value)

set_value_float64(self, value) == JFloat(value)

set_value_int64(self, value) == JInt(value)

\* A set_value_string that stores the bytes as given.
set_value_string_raw(self, value) == JStr(value)

set_value_string(self, value) ==
  JStr(IF ~contains_valid_utf8(value) THEN base64_encode(value) ELSE value)

\* JSON::parse: input is the text, given by what the engine makes of it
\* (malformed, or the document it denotes).
parse(input) ==
  IF input.ok THEN Good(input.doc) ELSE Bad("parse_error.101", JNull)

-----------------------------------------------------------------------------
(* The Value layer: two JSON Values, a and b, and the calls a caller makes  *)

Handles == {"a", "b"}

\* The member names a caller passes: "k" and a byte that is not UTF-8.
Keys == {<<107>>, <<255>>}

\* The numbers a caller sets: 42 and 3.1415.
Int64Inputs == {42}

Float64Inputs == {31415}

\* The strings a caller sets in the Value layer: "A" and a byte that is not
\* UTF-8.
StringInputs == {<<65>>, <<255>>}

\* The texts a caller parses: "{", "true", {"k": true} and [42].
ParseInputs ==
  { [ok |-> FALSE, doc |-> JNull],
    [ok |-> TRUE, doc |-> JBool(TRUE)],
    [ok |-> TRUE, doc |-> JObj(Put(<<>>, <<107>>, JBool(TRUE)))],
    [ok |-> TRUE, doc |-> JArr(<<JInt(42)>>)] }

\* The vectors a caller builds by moving Values into them, as the Values
\* moved, in order.
VectorInputs == {<<>>, <<"a">>, <<"b">>, <<"a", "b">>, <<"b", "a">>}

\* The Values hold at most MaxNodes nodes together.
Fits(v) == Weight(v["a"]) + Weight(v["b"]) <= MaxNodes

\* What the last call was and the Result it returned.
Call(op, recv, arg, key, res) ==
  [op |-> op, recv |-> recv, arg |-> arg, key |-> key,
   good |-> res.good, failure |-> res.failure, value |-> res.value]

\* The pointer layer at rest.
PtrIdle ==
  /\ tree = JNull
  /\ target = [type |-> "bool", v |-> JBool(FALSE)]
  /\ pcall = [op |-> "init", pointer |-> <<>>, res |-> "success"]
  /\ ppre = [tree |-> JNull, target |-> [type |-> "bool", v |-> JBool(FALSE)]]

Init ==
  /\ val = [h \in Handles |-> JNull]
  /\ call = Call("init", "", "", <<>>, Good(JNull))
  /\ pre = [h \in Handles |-> JNull]
  /\ given = <<>>
  /\ PtrIdle

\* JSON json;
Construct(h) ==
  /\ val' = [val EXCEPT ![h] = JNull]
  /\ call' = Call("construct", h, "", <<>>, Good(JNull))
  /\ pre' = val
  /\ UNCHANGED <<given, ptrvars>>

\* Result<JSON> h = JSON::parse(input);
Parse(h, input) ==
  LET r == parse(input)
  IN /\ val' = [val EXCEPT ![h] = r.value]
     /\ Fits(val')
     /\ call' = Call("parse", h, "", <<>>, r)
     /\ pre' = val
     /\ UNCHANGED <<given, ptrvars>>

Dump(h) ==
  LET r == dump(val[h])
  IN /\ val' = [val EXCEPT ![h] = r.self]
     /\ call' = Call("dump", h, "", <<>>, r.res)
     /\ pre' = val
     /\ UNCHANGED <<given, ptrvars>>

\* JSON dst{std::move(src)};
MoveConstruct(dst, src) ==
  LET r == move_construct(val[src])
  IN /\ dst # src
     /\ val' = [val EXCEPT ![dst] = r.self, ![src] = r.other]
     /\ call' = Call("move_construct", dst, src, <<>>, Good(JNull))
     /\ pre' = val
     /\ UNCHANGED <<given, ptrvars>>

\* dst = std::move(src);
MoveAssign(dst, src) ==
  LET r == move_assign(val[dst], val[src])
  IN /\ val' = [val EXCEPT ![src] = r.other, ![dst] = r.self]
     /\ call' = Call("move_assign", dst, src, <<>>, Good(JNull))
     /\ pre' = val
     /\ UNCHANGED <<given, ptrvars>>

GetValueAt(h, key) ==
  LET r == get_value_at(val[h], key)
  IN /\ val' = [val EXCEPT ![h] = r.self]
     /\ call' = Call("get_value_at", h, "", key, r.res)
     /\ pre' = val
     /\ UNCHANGED <<given, ptrvars>>

\* One of the typed extractors, r being what its function gives for val[h].
Extract(op, h, r) ==
  /\ val' = [val EXCEPT ![h] = r.self]
  /\ call' = Call(op, h, "", <<>>, r.res)
  /\ pre' = val
  /\ UNCHANGED <<given, ptrvars>>

GetValueArray(h) == Extract("get_value_array", h, get_value_array(val[h]))

GetValueBoolean(h) == Extract("get_value_boolean", h, get_value_boolean(val[h]))

GetValueFloat64(h) == Extract("get_value_float64", h, get_value_float64(val[h]))

GetValueInt64(h) == Extract("get_value_int64", h, get_value_int64(val[h]))

GetValueString(h) == Extract("get_value_string", h, get_value_string(val[h]))

\* h.set_value_at(key, std::move(v)), v another Value than h.
SetValueAt(h, key, v) ==
  LET r == set_value_at(val[h], key, val[v])
  IN /\ h # v
     /\ val' = [val EXCEPT ![h] = r.self, ![v] = r.value]
     /\ Fits(val')
     /\ call' = Call("set_value_at", h, v, key, r.res)
     /\ pre' = val
     /\ UNCHANGED <<given, ptrvars>>

\* The Values after each Value of hs was moved into a vector
\* (vector.push_back(std::move(x)) move-constructs the entry).
RECURSIVE PushAll(_, _)
PushAll(v, hs) ==
  IF hs = <<>> THEN [vals |-> v, vector |-> <<>>]
  ELSE LET m == move_construct(v[Head(hs)])
           r == PushAll([v EXCEPT ![Head(hs)] = m.other], Tail(hs))
       IN [vals |-> r.vals, vector |-> <<m.self>> \o r.vector]

\* The vector is built from the Values hs and handed to h.set_value_array.
SetValueArray(h, hs) ==
  LET p == PushAll(val, hs)
  IN /\ val' = [p.vals EXCEPT ![h] = set_value_array(p.vals[h], p.vector)]
     /\ Fits(val')
     /\ call' = Call("set_value_array", h, "", <<>>, Good(JArr(p.vector)))
     /\ pre' = val
     /\ UNCHANGED <<given, ptrvars>>

\* One of the scalar setters, doc being the document it stores.
Store(op, h, doc) ==
  /\ val' = [val EXCEPT ![h] = doc]
  /\ Fits(val')
  /\ call' = Call(op, h, "", <<>>, Good(JNull))
  /\ pre' = val
  /\ UNCHANGED <<given, ptrvars>>

SetValueFloat64(h, x) == Store("set_value_float64", h, set_value_float64(val[h], x))

SetValueInt64(h, x) == Store("set_value_int64", h, set_value_int64(val[h], x))

SetValueString(h, s) == Store("set_value_string", h, set_value_string(val[h], s))

Next ==
  \/ \E h \in Handles : Construct(h)
  \/ \E h \in Handles, input \in ParseInputs : Parse(h, input)
  \/ \E h \in Handles : Dump(h)
  \/ \E dst \in Handles, src \in Handles : MoveConstruct(dst, src)
  \/ \E dst \in Handles, src \in Handles : MoveAssign(dst, src)
  \/ \E h \in Handles, key \in Keys : GetValueAt(h, key)
  \/ \E h \in Handles : GetValueArray(h)
  \/ \E h \in Handles : GetValueBoolean(h)
  \/ \E h \in Handles : GetValueFloat64(h)
  \/ \E h \in Handles : GetValueInt64(h)
  \/ \E h \in Handles : GetValueString(h)
  \/ \E h \in Handles, key \in Keys, v \in Handles : SetValueAt(h, key, v)
  \/ \E h \in Handles, hs \in VectorInputs : SetValueArray(h, hs)
  \/ \E h \in Handles, x \in Float64Inputs : SetValueFloat64(h, x)
  \/ \E h \in Handles, x \in Int64Inputs : SetValueInt64(h, x)
  \/ \E h \in Handles, s \in StringInputs : SetValueString(h, s)

Spec == Init /\ [][Next]_vars

-----------------------------------------------------------------------------
(* Claims about the Value layer. pre is the Values as the last call found   *)
(* them, call the call and its Result, val the Values as it left them.      *)

\* The member k of document t when t is an object that has it, else null.
MemberOrNull(t, k) ==
  IF t.kind = "object" /\ k \in DOMAIN t.o THEN t.o[k] ELSE JNull

Members(t) == IF t.kind = "object" THEN DOMAIN t.o ELSE {}

\* C1 as claimed: after move construction of b from a, or b = move(a) with b
\* another Value than a, a is null and b holds the document a held.
C1_MoveLeavesSourceNull ==
  (call.op \in {"move_construct", "move_assign"} /\ call.recv # call.arg)
    => /\ is_null(val[call.arg])
       /\ val[call.recv] = pre[call.arg]

\* C1 amended: move construction leaves the source null and gives the new
\* Value the source's document; move assignment b = move(a) gives b the
\* document a held and a the document b held, so that a is null exactly when
\* b was.
C1_MoveTransfers ==
  /\ call.op = "move_construct"
       => /\ is_null(val[call.arg])
          /\ val[call.recv] = pre[call.arg]
  /\ call.op = "move_assign"
       => /\ val[call.recv] = pre[call.arg]
          /\ val[call.arg] = pre[call.recv]
          /\ is_null(val[call.arg]) <=> is_null(pre[call.recv])

C1_Witness ==
  /\ call.op = "move_assign"
  /\ call.recv # call.arg
  /\ ~is_null(pre[call.arg])
  /\ ~is_null(pre[call.recv])
  /\ pre[call.arg] # pre[call.recv]

\* C2 as claimed: after every successful set_value_at(key, v), v is null.
C2_ArgumentLeftNull ==
  (call.op = "set_value_at" /\ call.good) => is_null(val[call.arg])

\* C2 amended: after every successful set_value_at(key, v), v holds the
\* document the receiver had at key before the call, which is null when key
\* was absent (or the receiver null) and the previous value when key was
\* present.
C2_ArgumentHoldsPrevious ==
  (call.op = "set_value_at" /\ call.good)
    => val[call.arg] = MemberOrNull(pre[call.recv], call.key)

C2_Witness ==
  /\ call.op = "set_value_at"
  /\ call.good
  /\ call.key \in Members(pre[call.recv])
  /\ ~is_null(pre[call.recv].o[call.key])
  /\ ~is_null(pre[call.arg])

\* C3 as claimed: set_value_at on a receiver of any kind but object (null
\* included) fails with a non-empty message.
C3_NonObjectFails ==
  (call.op = "set_value_at" /\ ~is_object(pre[call.recv]))
    => ~call.good /\ call.failure # ""

\* C3 amended: set_value_at on a boolean, int64, float64, string or array
\* receiver fails with a non-empty message; on a null receiver it succeeds.
C3_NonObjectNonNullFails ==
  call.op = "set_value_at"
    => /\ pre[call.recv].kind \in {"boolean", "int64", "float64", "string", "array"}
            => ~call.good /\ call.failure # ""
       /\ is_null(pre[call.recv]) => call.good

C3_Witness ==
  /\ call.op = "set_value_at"
  /\ is_array(pre[call.recv])
  /\ ~call.good
  /\ ~is_null(pre[call.arg])

\* C4: set_value_at(key, v) succeeds on an object receiver and on a null one;
\* afterwards the receiver is an object in which key maps to the document v
\* held and every other key is as it was.
C4_SetValueAtStores ==
  (call.op = "set_value_at" /\ pre[call.recv].kind \in {"object", "null"})
    => /\ call.good
       /\ call.failure = ""
       /\ is_object(val[call.recv])
       /\ Members(val[call.recv]) = Members(pre[call.recv]) \cup {call.key}
       /\ val[call.recv].o[call.key] = pre[call.arg]
       /\ \A k \in Members(pre[call.recv]) \ {call.key} :
            val[call.recv].o[k] = pre[call.recv].o[k]

C4_Witness ==
  /\ call.op = "set_value_at"
  /\ call.good
  /\ ~is_null(pre[call.arg])
  /\ call.key \notin Members(pre[call.recv])
  /\ \E k \in Members(pre[call.recv]) : ~is_null(pre[call.recv].o[k])

\* C5: get_value_at(K) on an object that has K succeeds and returns the
\* document that was at K; afterwards the receiver is still an object, has no
\* K, and has every other key as it was.
C5_GetValueAtRemoves ==
  (call.op = "get_value_at" /\ call.key \in Members(pre[call.recv]))
    => /\ call.good
       /\ call.failure = ""
       /\ call.value = pre[call.recv].o[call.key]
       /\ is_object(val[call.recv])
       /\ Members(val[call.recv]) = Members(pre[call.recv]) \ {call.key}
       /\ \A k \in Members(val[call.recv]) :
            val[call.recv].o[k] = pre[call.recv].o[k]

C5_Witness ==
  /\ call.op = "get_value_at"
  /\ call.good
  /\ ~is_null(call.value)
  /\ Members(val[call.recv]) # {}

Extractors ==
  {"get_value_array", "get_value_boolean", "get_value_float64",
   "get_value_int64", "get_value_string"}

\* The kind each typed extractor expects.
ExpectedKind(op) ==
  CASE op = "get_value_array" -> "array"
    [] op = "get_value_boolean" -> "boolean"
    [] op = "get_value_float64" -> "float64"
    [] op = "get_value_int64" -> "int64"
    [] op = "get_value_string" -> "string"

\* The value of a default-constructed payload of each typed extractor:
\* an empty vector, false, 0.0, 0, an empty string.
DefaultPayload(op) ==
  CASE op = "get_value_array" -> JArr(<<>>)
    [] op = "get_value_boolean" -> JBool(FALSE)
    [] op = "get_value_float64" -> JFloat(0)
    [] op = "get_value_int64" -> JInt(0)
    [] op = "get_value_string" -> JStr(<<>>)

\* C6: a typed extractor called on a Value of its kind succeeds, returns the
\* payload the Value held (an array's elements one by one, in order) and
\* leaves the receiver null.
C6_ExtractorMovesOut ==
  (call.op \in Extractors /\ pre[call.recv].kind = ExpectedKind(call.op))
    => /\ call.good
       /\ call.failure = ""
       /\ call.value = pre[call.recv]
       /\ is_null(val[call.recv])

C6_Witness ==
  /\ call.op = "get_value_array"
  /\ call.good
  /\ Len(call.value.a) = 2
  /\ call.value.a[1] # call.value.a[2]

\* C7: a typed extractor called on a Value of another kind returns good =
\* false, a non-empty message and a default payload, and leaves every Value
\* as it was.
C7_ExtractorMismatchFails ==
  (call.op \in Extractors /\ pre[call.recv].kind # ExpectedKind(call.op))
    => /\ ~call.good
       /\ call.failure # ""
       /\ call.value = DefaultPayload(call.op)
       /\ val = pre

C7_Witness ==
  /\ call.op = "get_value_int64"
  /\ is_float64(pre[call.recv])
  /\ ~call.good

\* C9 as claimed: whatever public operations built the Values, every string
\* they store is valid UTF-8 and dump() succeeds.
C9_StringsValidAndDumpSucceeds ==
  /\ \A h \in Handles : \A s \in Strings(val[h]) : contains_valid_utf8(s)
  /\ call.op = "dump" => call.good

-----------------------------------------------------------------------------
(* The ownership layer: the Value layer with every integer a caller stores  *)
(* or parses a serial number no Value holds at that moment, so that a node  *)
(* held twice shows as a serial number met twice.                           *)

\* One serial number more than the Values can hold nodes.
Serials == 1..(MaxNodes + 1)

\* How often serial number x occurs in document t.
RECURSIVE Occurrences(_, _)
Occurrences(t, x) ==
  IF t.kind = "int64" THEN (IF t.n = x THEN 1 ELSE 0)
  ELSE IF t.kind = "array" THEN SumSeq([i \in DOMAIN t.a |-> Occurrences(t.a[i], x)])
  ELSE IF t.kind = "object" THEN SumFun([k \in DOMAIN t.o |-> Occurrences(t.o[k], x)])
  ELSE 0

\* The least serial number no Value holds.
Fresh ==
  LET free == {x \in Serials : \A h \in Handles : Occurrences(val[h], x) = 0}
  IN CHOOSE x \in free : \A y \in free : x <= y

\* The texts a caller parses: "{", {"k": x} and [x], x a serial number.
OwnParseInputs(x) ==
  { [ok |-> FALSE, doc |-> JNull],
    [ok |-> TRUE, doc |-> JObj(Put(<<>>, <<107>>, JInt(x)))],
    [ok |-> TRUE, doc |-> JArr(<<JInt(x)>>)] }

\* The calls that make, move or drop the nodes the serial numbers follow.
OwnNext ==
  \/ \E h \in Handles : Construct(h)
  \/ \E h \in Handles, input \in OwnParseInputs(Fresh) : Parse(h, input)
  \/ \E dst \in Handles, src \in Handles : MoveConstruct(dst, src)
  \/ \E dst \in Handles, src \in Handles : MoveAssign(dst, src)
  \/ \E h \in Handles, key \in Keys : GetValueAt(h, key)
  \/ \E h \in Handles : GetValueArray(h)
  \/ \E h \in Handles : GetValueInt64(h)
  \/ \E h \in Handles, key \in Keys, v \in Handles : SetValueAt(h, key, v)
  \/ \E h \in Handles, hs \in VectorInputs : SetValueArray(h, hs)
  \/ \E h \in Handles : SetValueInt64(h, Fresh)

OwnSpec == Init /\ [][OwnNext]_vars

\* The Value the last call handed out: the JSON of get_value_at, the JSONs of
\* get_value_array's vector; null for the calls that hand out none.
HandedOut ==
  IF call.op \in {"get_value_at", "get_value_array"} /\ call.good THEN call.value ELSE JNull

\* C15: no node is held twice: every serial number occurs at most once in
\* the Values a and b and the Value the last call handed out, taken together.
C15_NoNodeHeldTwice ==
  \A x \in Serials :
    Occurrences(val["a"], x) + Occurrences(val["b"], x) + Occurrences(HandedOut, x) <= 1

\* get_value_at has moved one of two members out of an object that the
\* members were moved into before.
C15_Witness ==
  /\ call.op = "get_value_at"
  /\ call.good
  /\ \E x \in Serials : Occurrences(call.value, x) = 1
  /\ \E x \in Serials : Occurrences(val[call.recv], x) = 1

-----------------------------------------------------------------------------
(* The string layer: a byte sequence, given, is set into a Value with       *)
(* set_value_string and read back with get_value_string.                    *)

\* The bytes the sequences are made of: "A", the two bytes of U+00E9, the
\* lead byte and a continuation byte of U+2082, and a byte no UTF-8 text has.
Bytes == {65, 195, 169, 226, 130, 255}

ByteStrings == UNION {[1..n -> Bytes] : n \in 0..MaxStrLen}

StrInit ==
  /\ val = [h \in Handles |-> JNull]
  /\ call = Call("init", "", "", <<>>, Good(JNull))
  /\ pre = [h \in Handles |-> JNull]
  /\ given \in ByteStrings
  /\ PtrIdle

StrNext ==
  \/ \E h \in Handles : SetValueString(h, given)
  \/ \E h \in Handles : GetValueString(h)

StrSpec == StrInit /\ [][StrNext]_vars

\* What the string policy makes of byte sequence s.
Sanitized(s) == IF contains_valid_utf8(s) THEN s ELSE base64_encode(s)

\* C8: set_value_string(S) leaves the Value a string, and get_value_string()
\* on it succeeds and returns S when S is valid UTF-8 and base64_encode(S)
\* when it is not.
C8_StringRoundTrip ==
  /\ call.op = "set_value_string" => is_string(val[call.recv])
  /\ (call.op = "get_value_string" /\ is_string(pre[call.recv]))
       => /\ call.good
          /\ call.value.kind = "string"
          /\ call.value.s = Sanitized(given)

C8_Witness ==
  /\ call.op = "get_value_string"
  /\ call.good
  /\ Len(given) = 3
  /\ ~contains_valid_utf8(given)
  /\ call.value.s = base64_encode(given)
  /\ call.value.s # given

-----------------------------------------------------------------------------
(* nlohmann::json::json_pointer: the pointer text, a sequence of bytes      *)

\* s cut at every "/" (47).
RECURSIVE SplitSlash(_)
SplitSlash(s) ==
  IF \A i \in DOMAIN s : s[i] # 47 THEN <<s>>
  ELSE LET i == CHOOSE x \in DOMAIN s : s[x] = 47 /\ \A y \in 1..(x - 1) : s[y] # 47
       IN <<SubSeq(s, 1, i - 1)>> \o SplitSlash(SubSeq(s, i + 1, Len(s)))

\* Every "~" (126) of the reference token is followed by "0" or "1".
TildeOk(tok) ==
  \A i \in DOMAIN tok : tok[i] = 126 => (i < Len(tok) /\ tok[i + 1] \in {48, 49})

\* The reference token with "~1" read as "/" and "~0" as "~".
RECURSIVE Unescape(_)
Unescape(tok) ==
  IF tok = <<>> THEN <<>>
  ELSE IF tok[1] = 126 /\ Len(tok) >= 2
    THEN <<IF tok[2] = 49 THEN 47 ELSE 126>> \o Unescape(SubSeq(tok, 3, Len(tok)))
  ELSE <<tok[1]>> \o Unescape(Tail(tok))

\* json_pointer{pointer}: the reference tokens, or a parse error (107 when a
\* non-empty pointer does not begin with "/", 108 on a bad "~").
json_pointer(pointer) ==
  IF pointer = <<>> THEN [ok |-> TRUE, tokens |-> <<>>]
  ELSE IF pointer[1] # 47 THEN [ok |-> FALSE, tokens |-> <<>>]
  ELSE LET raw == SplitSlash(Tail(pointer))
       IN IF \E i \in DOMAIN raw : ~TildeOk(raw[i]) THEN [ok |-> FALSE, tokens |-> <<>>]
          ELSE [ok |-> TRUE, tokens |-> [i \in DOMAIN raw |-> Unescape(raw[i])]]

\* The reference token is an array index: digits, with no leading zero.
IsIndex(tok) ==
  /\ tok # <<>>
  /\ \A i \in DOMAIN tok : tok[i] \in 48..57
  /\ Len(tok) > 1 => tok[1] # 48

RECURSIVE IndexOf(_)
IndexOf(tok) ==
  IF tok = <<>> THEN 0 ELSE 10 * IndexOf(SubSeq(tok, 1, Len(tok) - 1)) + (tok[Len(tok)] - 48)

\* json.at(p) finds a node: every token names a member of an object or an
\* element of an array; anything else throws.
RECURSIVE Found(_, _)
Found(t, tokens) ==
  IF tokens = <<>> THEN TRUE
  ELSE IF t.kind = "object"
    THEN Head(tokens) \in DOMAIN t.o /\ Found(t.o[Head(tokens)], Tail(tokens))
  ELSE IF t.kind = "array"
    THEN /\ IsIndex(Head(tokens))
         /\ IndexOf(Head(tokens)) < Len(t.a)
         /\ Found(t.a[IndexOf(Head(tokens)) + 1], Tail(tokens))
  ELSE FALSE

\* The node json.at(p) refers to, for a p that finds one.
RECURSIVE NodeAt(_, _)
NodeAt(t, tokens) ==
  IF tokens = <<>> THEN t
  ELSE IF t.kind = "object" THEN NodeAt(t.o[Head(tokens)], Tail(tokens))
  ELSE NodeAt(t.a[IndexOf(Head(tokens)) + 1], Tail(tokens))

\* The tree with the node json.at(p) refers to replaced by node.
RECURSIVE WithNodeAt(_, _, _)
WithNodeAt(t, tokens, node) ==
  IF tokens = <<>> THEN node
  ELSE IF t.kind = "object"
    THEN JObj([t.o EXCEPT ![Head(tokens)] = WithNodeAt(@, Tail(tokens), node)])
  ELSE JArr([t.a EXCEPT ![IndexOf(Head(tokens)) + 1] = WithNodeAt(@, Tail(tokens), node)])

-----------------------------------------------------------------------------
(* swap_value_at. The caller's variable is a document of the kind its type  *)
(* holds: "bool" a boolean, "double" a float64, "int64" an int64, "string"  *)
(* a string, "vector_json" (std::vector<nlohmann::json>) an array,          *)
(* "map_json" (std::map<std::string, nlohmann::json>) an object,            *)
(* "vector_string" an array of strings, "map_string" an object of strings.  *)

\* The kind of node element.get_ptr<Type *>() accepts.
KindOf(type) ==
  CASE type = "bool" -> "boolean"
    [] type = "double" -> "float64"
    [] type = "int64" -> "int64"
    [] type = "string" -> "string"
    [] type = "vector_json" -> "array"
    [] type = "map_json" -> "object"

\* A swap_value_at that puts the node back when the cast fails.
swap_value_at_restoring(json, pointer, value, type) ==
  LET p == json_pointer(pointer)
  IN IF ~p.ok THEN [res |-> "bad_json_pointer", json |-> json, value |-> value]
     ELSE IF ~Found(json, p.tokens) THEN [res |-> "not_found", json |-> json, value |-> value]
     ELSE IF NodeAt(json, p.tokens).kind # KindOf(type)
       THEN [res |-> "cast_failed", json |-> json, value |-> value]
     ELSE [res |-> "success",
           json |-> WithNodeAt(json, p.tokens, JNull),
           value |-> NodeAt(json, p.tokens)]

\* A swap_value_at that looks a pointer it cannot parse up as one that finds
\* nothing.
swap_value_at_unparsed(json, pointer, value, type) ==
  LET p == json_pointer(pointer)
  IN IF ~p.ok \/ ~Found(json, p.tokens)
       THEN [res |-> "not_found", json |-> json, value |-> value]
     ELSE LET element == NodeAt(json, p.tokens)
              swapped == WithNodeAt(json, p.tokens, JNull)
          IN IF element.kind # KindOf(type)
             THEN [res |-> "cast_failed", json |-> swapped, value |-> value]
             ELSE [res |-> "success", json |-> swapped, value |-> element]

\* A swap_value_at that forgets std::swap(*vp, value): the variable keeps
\* what it held.
swap_value_at_keeps(json, pointer, value, type) ==
  LET p == json_pointer(pointer)
  IN IF ~p.ok THEN [res |-> "bad_json_pointer", json |-> json, value |-> value]
     ELSE IF ~Found(json, p.tokens) THEN [res |-> "not_found", json |-> json, value |-> value]
     ELSE LET element == NodeAt(json, p.tokens)
              swapped == WithNodeAt(json, p.tokens, JNull)
          IN IF element.kind # KindOf(type)
             THEN [res |-> "cast_failed", json |-> swapped, value |-> value]
             ELSE [res |-> "success", json |-> swapped, value |-> value]

\* A swap_value_at that leaves in the tree what the variable held.
swap_value_at_exchanging(json, pointer, value, type) ==
  LET p == json_pointer(pointer)
  IN IF ~p.ok THEN [res |-> "bad_json_pointer", json |-> json, value |-> value]
     ELSE IF ~Found(json, p.tokens) THEN [res |-> "not_found", json |-> json, value |-> value]
     ELSE LET element == NodeAt(json, p.tokens)
          IN IF element.kind # KindOf(type)
             THEN [res |-> "cast_failed",
                   json |-> WithNodeAt(json, p.tokens, JNull), value |-> value]
             ELSE [res |-> "success",
                   json |-> WithNodeAt(json, p.tokens, value), value |-> element]

\* template <typename Type> swap_value_at(json, pointer, value)
swap_value_at(json, pointer, value, type) ==
  LET p == json_pointer(pointer)
  IN IF ~p.ok THEN [res |-> "bad_json_pointer", json |-> json, value |-> value]
     ELSE IF ~Found(json, p.tokens) THEN [res |-> "not_found", json |-> json, value |-> value]
     ELSE LET element == NodeAt(json, p.tokens)
              swapped == WithNodeAt(json, p.tokens, JNull)
          IN IF element.kind # KindOf(type)
             THEN [res |-> "cast_failed", json |-> swapped, value |-> value]
             ELSE [res |-> "success", json |-> swapped, value |-> element]

\* A loop that passes over the entries that are not strings.
RECURSIVE SwapEntries_skipping(_, _, _)
SwapEntries_skipping(vec, i, value) ==
  IF i > Len(vec) THEN [res |-> "success", value |-> value]
  ELSE SwapEntries_skipping(vec, i + 1,
         IF vec[i].kind = "string" THEN Append(value, vec[i]) ELSE value)

\* The loop of the std::vector<std::string> specialization from entry i of
\* vec on, value being the strings pushed so far.
RECURSIVE SwapEntries(_, _, _)
SwapEntries(vec, i, value) ==
  IF i > Len(vec) THEN [res |-> "success", value |-> value]
  ELSE LET r == swap_value_at(vec[i], <<>>, JStr(<<>>), "string")
       IN IF r.res # "success" THEN [res |-> r.res, value |-> value]
          ELSE SwapEntries(vec, i + 1, Append(value, r.value))

\* A swap_value_at<std::vector<std::string>> that clears the vector before
\* it swaps the collection out.
swap_value_at_vector_string_clearing(json, pointer, value) ==
  LET r == swap_value_at(json, pointer, JArr(<<>>), "vector_json")
  IN IF r.res # "success" THEN [res |-> r.res, json |-> r.json, value |-> JArr(<<>>)]
     ELSE LET e == SwapEntries(r.value.a, 1, <<>>)
          IN [res |-> e.res, json |-> r.json, value |-> JArr(e.value)]

\* swap_value_at<std::vector<std::string>>
swap_value_at_vector_string(json, pointer, value) ==
  LET r == swap_value_at(json, pointer, JArr(<<>>), "vector_json")
  IN IF r.res # "success" THEN [res |-> r.res, json |-> r.json, value |-> value]
     ELSE LET e == SwapEntries(r.value.a, 1, <<>>)
          IN [res |-> e.res, json |-> r.json, value |-> JArr(e.value)]

\* The order of std::map<std::string, ..>: byte by byte, a prefix first.
RECURSIVE Less(_, _)
Less(x, y) ==
  IF y = <<>> THEN FALSE
  ELSE IF x = <<>> THEN TRUE
  ELSE IF x[1] # y[1] THEN x[1] < y[1]
  ELSE Less(Tail(x), Tail(y))

First(keys) == CHOOSE k \in keys : \A j \in keys \ {k} : Less(k, j)

\* The loop of the std::map<std::string, std::string> specialization over
\* the members named keys, in order, value being the pairs emplaced so far.
RECURSIVE SwapMembers(_, _, _)
SwapMembers(map, keys, value) ==
  IF keys = {} THEN [res |-> "success", value |-> value]
  ELSE LET k == First(keys)
           r == swap_value_at(map[k], <<>>, JStr(<<>>), "string")
       IN IF r.res # "success" THEN [res |-> r.res, value |-> value]
          ELSE SwapMembers(map, keys \ {k}, Put(value, k, r.value))

\* swap_value_at<std::map<std::string, std::string>>
swap_value_at_map_string(json, pointer, value) ==
  LET r == swap_value_at(json, pointer, JObj(<<>>), "map_json")
  IN IF r.res # "success" THEN [res |-> r.res, json |-> r.json, value |-> value]
     ELSE LET e == SwapMembers(r.value.o, DOMAIN r.value.o, <<>>)
          IN [res |-> e.res, json |-> r.json, value |-> JObj(e.value)]

-----------------------------------------------------------------------------
(* movein. The value moved in is the document nlohmann::json makes of it:   *)
(* a std::string a string, a std::vector<std::string> an array of strings,  *)
(* a std::map<std::string, std::string> an object of strings.               *)

\* std::all_of(tok.begin(), tok.end(), is a digit): true of the empty token.
AllDigits(tok) == \A i \in DOMAIN tok : tok[i] \in 48..57

\* The array a filled up with nulls so that it has an entry n.
PadTo(a, n) == [i \in 1..(IF n > Len(a) THEN n ELSE Len(a)) |-> IF i <= Len(a) THEN a[i] ELSE JNull]

\* json[p] = value, from node t on: at every reference token a null node
\* first becomes an array (token all digits, or "-") or an object; an object
\* gets the member when it has none; an array is filled up to the index
\* ("-" being the index past the end), and throws on a leading zero or on a
\* token that is no number; any other node throws. "json" is the node as the
\* call leaves it, what was created before a throw included.
RECURSIVE json_index_pointer(_, _, _)
json_index_pointer(t, tokens, value) ==
  IF tokens = <<>> THEN [ok |-> TRUE, json |-> value]
  ELSE LET tok == Head(tokens)
           t1 == IF t.kind # "null" THEN t
                 ELSE IF AllDigits(tok) \/ tok = <<45>> THEN JArr(<<>>)
                 ELSE JObj(<<>>)
       IN IF t1.kind = "object"
            THEN LET m == IF tok \in DOMAIN t1.o THEN t1.o[tok] ELSE JNull
                     r == json_index_pointer(m, Tail(tokens), value)
                 IN [ok |-> r.ok, json |-> JObj(Put(t1.o, tok, r.json))]
          ELSE IF t1.kind = "array"
            THEN IF (Len(tok) > 1 /\ tok[1] = 48) \/ (tok # <<45>> /\ ~IsIndex(tok))
                   THEN [ok |-> FALSE, json |-> t1]
                 ELSE LET i == IF tok = <<45>> THEN Len(t1.a) + 1 ELSE IndexOf(tok) + 1
                          a == PadTo(t1.a, i)
                          r == json_index_pointer(a[i], Tail(tokens), value)
                      IN [ok |-> r.ok, json |-> JArr([a EXCEPT ![i] = r.json])]
          ELSE [ok |-> FALSE, json |-> t1]

\* template <typename Type> movein_(json, pointer, value)
movein_(json, pointer, value) ==
  LET p == json_pointer(pointer)
  IN IF ~p.ok THEN [res |-> "bad_json_pointer", json |-> json]
     ELSE LET r == json_index_pointer(json, p.tokens, value)
          IN [res |-> IF r.ok THEN "success" ELSE "cannot_create", json |-> r.json]

\* template <typename Type> movein(json, pointer, value)
movein(json, pointer, value) == movein_(json, pointer, value)

\* A movein<std::string> that moves the bytes in as given.
movein_string_raw(json, pointer, value) == movein_(json, pointer, value)

\* movein<std::string>: value is the string's document.
movein_string(json, pointer, value) ==
  movein_(json, pointer,
          JStr(IF ~contains_valid_utf8(value.s) THEN base64_encode(value.s) ELSE value.s))

\* movein<std::vector<std::string>>
movein_vector_string(json, pointer, value) ==
  movein_(json, pointer,
          JArr([i \in DOMAIN value.a |->
                 JStr(IF ~contains_valid_utf8(value.a[i].s)
                      THEN base64_encode(value.a[i].s) ELSE value.a[i].s)]))

\* movein<std::map<std::string, std::string>>
movein_map_string(json, pointer, value) ==
  movein_(json, pointer,
          JObj([k \in DOMAIN value.o |->
                 JStr(IF ~contains_valid_utf8(value.o[k].s)
                      THEN base64_encode(value.o[k].s) ELSE value.o[k].s)]))

-----------------------------------------------------------------------------
(* The pointer layer: a tree, a variable of the caller, and the calls       *)

\* The pointers a caller passes: "", "/k", "/v", "/v/0", "/v/1", "/m",
\* "/m/b", "/x", "[" and "/~"; then "/k/x" (below a scalar), "/v/2" (past
\* the end), "/v/-" (the end), "/v/01" (a leading zero), "/m/~0" (a member
\* named "~") and "k" (no leading slash).
Pointers ==
  { <<>>, <<47, 107>>, <<47, 118>>, <<47, 118, 47, 48>>, <<47, 118, 47, 49>>,
    <<47, 109>>, <<47, 109, 47, 98>>, <<47, 120>>, <<91>>, <<47, 126>>,
    <<47, 107, 47, 120>>, <<47, 118, 47, 50>>, <<47, 118, 47, 45>>,
    <<47, 118, 47, 48, 49>>, <<47, 109, 47, 126, 48>>, <<107>> }

\* The trees a caller parses:
\*   {"k": true, "v": ["A", 42]}
\*   {"k": 42, "v": ["A", "B"]}
\*   {"k": "A", "m": {"a": "A", "b": "B"}}
\*   {"k": 3.1415, "m": {"a": "A", "b": 42, "c": "C"}}
\*   "A"
TreeInputs ==
  { JObj(Put(Put(<<>>, <<107>>, JBool(TRUE)), <<118>>, JArr(<<JStr(<<65>>), JInt(42)>>))),
    JObj(Put(Put(<<>>, <<107>>, JInt(42)), <<118>>, JArr(<<JStr(<<65>>), JStr(<<66>>)>>))),
    JObj(Put(Put(<<>>, <<107>>, JStr(<<65>>)), <<109>>,
             JObj(Put(Put(<<>>, <<97>>, JStr(<<65>>)), <<98>>, JStr(<<66>>))))),
    JObj(Put(Put(<<>>, <<107>>, JFloat(31415)), <<109>>,
             JObj(Put(Put(Put(<<>>, <<97>>, JStr(<<65>>)), <<98>>, JInt(42)),
                      <<99>>, JStr(<<67>>))))),
    JStr(<<65>>) }

\* The variables a caller declares, one of each type, none holding its
\* type's default value.
TargetInputs ==
  { [type |-> "bool", v |-> JBool(TRUE)],
    [type |-> "double", v |-> JFloat(27183)],
    [type |-> "int64", v |-> JInt(7)],
    [type |-> "string", v |-> JStr(<<122>>)],
    [type |-> "vector_json", v |-> JArr(<<JInt(7)>>)],
    [type |-> "map_json", v |-> JObj(Put(<<>>, <<122>>, JInt(7)))],
    [type |-> "vector_string", v |-> JArr(<<JStr(<<122>>)>>)],
    [type |-> "map_string", v |-> JObj(Put(<<>>, <<122>>, JStr(<<122>>)))] }

PtrCall(op, pointer, res) == [op |-> op, pointer |-> pointer, res |-> res]

\* The Value layer at rest.
ValueIdle ==
  /\ val = [h \in Handles |-> JNull]
  /\ call = Call("init", "", "", <<>>, Good(JNull))
  /\ pre = [h \in Handles |-> JNull]
  /\ given = <<>>

PtrInit ==
  /\ ValueIdle
  /\ tree \in TreeInputs
  /\ target \in TargetInputs
  /\ pcall = PtrCall("init", <<>>, "success")
  /\ ppre = [tree |-> tree, target |-> target]

\* mk::json::parse(input, json, error), input being the text of doc.
Load(doc) ==
  /\ tree' = doc
  /\ pcall' = PtrCall("parse", <<>>, "success")
  /\ ppre' = [tree |-> tree, target |-> target]
  /\ UNCHANGED <<target, valvars>>

\* Type value = ..;
Declare(t) ==
  /\ target' = t
  /\ pcall' = PtrCall("declare", <<>>, "success")
  /\ ppre' = [tree |-> tree, target |-> target]
  /\ UNCHANGED <<tree, valvars>>

\* swap_value_at(json, pointer, value), value being the caller's variable.
SwapValueAt(pointer) ==
  LET r == IF target.type = "vector_string"
             THEN swap_value_at_vector_string(tree, pointer, target.v)
           ELSE IF target.type = "map_string"
             THEN swap_value_at_map_string(tree, pointer, target.v)
           ELSE swap_value_at(tree, pointer, target.v, target.type)
  IN /\ tree' = r.json
     /\ target' = [target EXCEPT !.v = r.value]
     /\ pcall' = PtrCall("swap_value_at", pointer, r.res)
     /\ ppre' = [tree |-> tree, target |-> target]
     /\ UNCHANGED valvars

PtrNext ==
  \/ \E doc \in TreeInputs : Load(doc)
  \/ \E t \in TargetInputs : Declare(t)
  \/ \E pointer \in Pointers : SwapValueAt(pointer)

PtrSpec == PtrInit /\ [][PtrNext]_vars

-----------------------------------------------------------------------------
(* The move-in layer: a tree, the value a caller moves into it with movein, *)
(* and the variable the caller swaps it back into. A behaviour follows one  *)
(* value into the tree and back: given is its movein (the pointer, the      *)
(* value as the caller gave it, the code and the tree as the call left it). *)

\* The pointers a caller passes: "", "/k", "/v/0", "/v/-", "/x/01", "/k/x",
\* "/" and "[".
MoveinPointers ==
  { <<>>, <<47, 107>>, <<47, 118, 47, 48>>, <<47, 118, 47, 45>>,
    <<47, 120, 47, 48, 49>>, <<47, 107, 47, 120>>, <<47>>, <<91>> }

\* The trees a caller starts from: null, {"k": true, "v": ["A"]} and "A".
MoveinTrees ==
  { JNull,
    JObj(Put(Put(<<>>, <<107>>, JBool(TRUE)), <<118>>, JArr(<<JStr(<<65>>)>>))),
    JStr(<<65>>) }

\* The values a caller moves in: true, "B", the byte 0xff, the vector
\* ["B", 0xff] and the map {"a": 0xff}.
MoveinInputs ==
  { [type |-> "bool", v |-> JBool(TRUE)],
    [type |-> "string", v |-> JStr(<<66>>)],
    [type |-> "string", v |-> JStr(<<255>>)],
    [type |-> "vector_string", v |-> JArr(<<JStr(<<66>>), JStr(<<255>>)>>)],
    [type |-> "map_string", v |-> JObj(Put(<<>>, <<97>>, JStr(<<255>>)))] }

\* The variables a caller swaps into.
MoveinTargets ==
  { [type |-> "string", v |-> JStr(<<122>>)],
    [type |-> "vector_string", v |-> JArr(<<JStr(<<122>>)>>)],
    [type |-> "map_string", v |-> JObj(Put(<<>>, <<122>>, JStr(<<122>>)))] }

NoMovein == [pointer |-> <<>>, value |-> [type |-> "bool", v |-> JBool(FALSE)],
             res |-> "none", tree |-> JNull]

MoveinInit ==
  /\ val = [h \in Handles |-> JNull]
  /\ call = Call("init", "", "", <<>>, Good(JNull))
  /\ pre = [h \in Handles |-> JNull]
  /\ given = NoMovein
  /\ tree \in MoveinTrees
  /\ target \in MoveinTargets
  /\ pcall = PtrCall("init", <<>>, "success")
  /\ ppre = [tree |-> tree, target |-> target]

\* movein(json, pointer, std::move(value)), the one movein of the behaviour.
MoveIn(pointer, value) ==
  LET r == IF value.type = "string" THEN movein_string(tree, pointer, value.v)
           ELSE IF value.type = "vector_string"
             THEN movein_vector_string(tree, pointer, value.v)
           ELSE IF value.type = "map_string"
             THEN movein_map_string(tree, pointer, value.v)
           ELSE movein(tree, pointer, value.v)
  IN /\ tree' = r.json
     /\ given = NoMovein
     /\ pcall' = PtrCall("movein", pointer, r.res)
     /\ ppre' = [tree |-> tree, target |-> target]
     /\ given' = [pointer |-> pointer, value |-> value, res |-> r.res, tree |-> r.json]
     /\ UNCHANGED <<target, val, call, pre>>

MoveinNext ==
  \/ \E pointer \in MoveinPointers, value \in MoveinInputs : MoveIn(pointer, value)
  \/ \E pointer \in MoveinPointers : SwapValueAt(pointer)

MoveinSpec == MoveinInit /\ [][MoveinNext]_vars

-----------------------------------------------------------------------------
(* Claims about the pointer layer. ppre is the tree and the variable as the *)
(* last call found them, pcall the call and its code.                       *)

\* The reference tokens of the last call's pointer.
CallTokens == json_pointer(pcall.pointer).tokens

\* The node the last call's pointer referred to when the call began.
CallNode == NodeAt(ppre.tree, CallTokens)

\* The slot the last call's pointer refers to is still there and holds null.
SlotIsNull == Found(tree, CallTokens) /\ NodeAt(tree, CallTokens) = JNull

\* The entries of array a before its first entry that is not a string.
StringsBefore(a) ==
  LET bad == {i \in DOMAIN a : a[i].kind # "string"}
      n == IF bad = {} THEN Len(a) + 1 ELSE CHOOSE i \in bad : \A j \in bad : i <= j
  IN SubSeq(a, 1, n - 1)

\* The members of object o whose names come before that of its first member
\* that is not a string.
MembersBefore(o) ==
  LET bad == {k \in DOMAIN o : o[k].kind # "string"}
      keep == {k \in DOMAIN o : \A j \in bad : Less(k, j)}
  IN [k \in keep |-> o[k]]

\* The pointer text is a JSON pointer (RFC 6901): empty, or reference tokens
\* each led by "/", every "~" followed by "0" or "1".
WellFormed(pointer) ==
  /\ pointer = <<>> \/ pointer[1] = 47
  /\ \A i \in DOMAIN pointer :
       pointer[i] = 126 => (i < Len(pointer) /\ pointer[i + 1] \in {48, 49})

\* The last call's pointer addressed a node of the tree the call found.
Addressed == WellFormed(pcall.pointer) /\ Found(ppre.tree, CallTokens)

\* C10 as claimed: whenever swap_value_at returns cast_failed, the node that
\* was at the pointer is gone from the tree (its slot holds null) and the
\* caller's variable is as it was.
C10_CastFailedKeepsTarget ==
  pcall.res = "cast_failed" => SlotIsNull /\ target = ppre.target

\* C10 amended: whenever swap_value_at returns cast_failed, the node that was
\* at the pointer is gone from the tree (its slot holds null, so the tree
\* differs from what it was unless the node was null); the caller's variable
\* is as it was, except in the two specializations when the node is the
\* collection they expect and one of its elements is not a string: the
\* variable then holds the strings of the elements before that one, and
\* nothing of what it held.
C10_CastFailedRemovesNode ==
  pcall.res = "cast_failed"
    => /\ SlotIsNull
       /\ ~is_null(CallNode) => tree # ppre.tree
       /\ IF target.type = "vector_string" /\ is_array(CallNode)
            THEN target.v = JArr(StringsBefore(CallNode.a))
          ELSE IF target.type = "map_string" /\ is_object(CallNode)
            THEN target.v = JObj(MembersBefore(CallNode.o))
          ELSE target = ppre.target

C10_Witness ==
  /\ pcall.res = "cast_failed"
  /\ target.type = "string"
  /\ target.v = JStr(<<122>>)
  /\ CallTokens # <<>>
  /\ is_array(CallNode)
  /\ Len(CallNode.a) = 2

\* C11: swap_value_at returns bad_json_pointer exactly for the pointers that
\* are not well-formed, whatever the tree and the variable's type, and
\* not_found exactly for the well-formed pointers that address no node of
\* the tree, whatever the variable's type; only a pointer that addresses a
\* node gets as far as the cast (cast_failed or success). A call that
\* returns bad_json_pointer or not_found changes neither tree nor variable.
C11_SyntaxThenLookupThenCast ==
  pcall.op = "swap_value_at"
    => /\ pcall.res = "bad_json_pointer" <=> ~WellFormed(pcall.pointer)
       /\ pcall.res = "not_found" <=> (WellFormed(pcall.pointer) /\ ~Addressed)
       /\ pcall.res \in {"cast_failed", "success"} <=> Addressed
       /\ pcall.res \in {"bad_json_pointer", "not_found"}
            => tree = ppre.tree /\ target = ppre.target

\* "/k/x" on a tree whose "k" is a scalar of another kind than the variable:
\* the lookup fails before any cast is tried.
C11_Witness ==
  /\ pcall.op = "swap_value_at"
  /\ pcall.res = "not_found"
  /\ pcall.pointer = <<47, 107, 47, 120>>
  /\ is_object(ppre.tree)
  /\ is_int64(ppre.tree.o[<<107>>])
  /\ target.type = "vector_string"

\* Document node is of the kind a variable of the type holds: for the two
\* specializations, a collection whose elements are all strings.
Matches(type, node) ==
  IF type = "vector_string"
    THEN is_array(node) /\ \A i \in DOMAIN node.a : is_string(node.a[i])
  ELSE IF type = "map_string"
    THEN is_object(node) /\ \A k \in DOMAIN node.o : is_string(node.o[k])
  ELSE node.kind = KindOf(type)

\* C12: when the pointer is well-formed and addresses a node of the kind the
\* variable's type holds, swap_value_at returns success and the variable
\* holds exactly the payload that was at the pointer; the empty pointer
\* addresses the root, so that with it the call is never bad_json_pointer nor
\* not_found and a successful call hands over the whole tree.
C12_MatchingNodeSwapsOut ==
  pcall.op = "swap_value_at"
    => /\ (Addressed /\ Matches(ppre.target.type, CallNode))
            => /\ pcall.res = "success"
               /\ target.type = ppre.target.type
               /\ target.v = CallNode
       /\ pcall.pointer = <<>>
            => /\ pcall.res \in {"success", "cast_failed"}
               /\ pcall.res = "success" => target.v = ppre.tree

\* The empty pointer on the tree "A" with a string variable holding "z".
C12_Witness ==
  /\ pcall.op = "swap_value_at"
  /\ pcall.pointer = <<>>
  /\ pcall.res = "success"
  /\ ppre.tree = JStr(<<65>>)
  /\ ppre.target = [type |-> "string", v |-> JStr(<<122>>)]
  /\ target.v = JStr(<<65>>)

\* The code the generic swap_value_at gives for a collection of the kind
\* named, on the tree and with the pointer of the last call.
CollectionCode(kind) ==
  IF ~WellFormed(pcall.pointer) THEN "bad_json_pointer"
  ELSE IF ~Addressed THEN "not_found"
  ELSE IF CallNode.kind # kind THEN "cast_failed"
  ELSE "success"

\* The kind of collection each specialization swaps out.
CollectionKind(type) == IF type = "vector_string" THEN "array" ELSE "object"

\* C13: the std::vector<std::string> and std::map<std::string, std::string>
\* specializations return the generic collection swap's code when that is
\* not success; otherwise they return cast_failed when some element is not a
\* string, and success only when every element is one, the variable then
\* holding all the elements (in order for a vector, under the same keys for
\* a map).
C13_SpecializationCodes ==
  (pcall.op = "swap_value_at" /\ ppre.target.type \in {"vector_string", "map_string"})
    => LET g == CollectionCode(CollectionKind(ppre.target.type))
       IN /\ g # "success" => pcall.res = g
          /\ (g = "success" /\ ~Matches(ppre.target.type, CallNode))
               => pcall.res = "cast_failed"
          /\ (g = "success" /\ Matches(ppre.target.type, CallNode))
               => pcall.res = "success"
          /\ pcall.res = "success"
               => /\ g = "success"
                  /\ Matches(ppre.target.type, CallNode)
                  /\ target.v = CallNode

\* "/v" on {"k": true, "v": ["A", 42]} with a vector of strings: the second
\* element's cast fails.
C13_Witness ==
  /\ pcall.op = "swap_value_at"
  /\ ppre.target.type = "vector_string"
  /\ pcall.pointer = <<47, 118>>
  /\ pcall.res = "cast_failed"
  /\ is_array(CallNode)
  /\ \E i \in DOMAIN CallNode.a : ~is_string(CallNode.a[i])

\* Documents t and u are the same but for the node the tokens lead to: along
\* the way the containers have the same kind and the same keys (or length)
\* and every other member (or element) is the same.
RECURSIVE SameButAt(_, _, _)
SameButAt(t, u, tokens) ==
  IF tokens = <<>> THEN TRUE
  ELSE /\ t.kind = u.kind
       /\ t.kind \in {"object", "array"}
       /\ IF t.kind = "object"
            THEN /\ DOMAIN t.o = DOMAIN u.o
                 /\ \A k \in DOMAIN t.o :
                      IF k = Head(tokens) THEN SameButAt(t.o[k], u.o[k], Tail(tokens))
                      ELSE t.o[k] = u.o[k]
          ELSE /\ Len(t.a) = Len(u.a)
               /\ \A i \in DOMAIN t.a :
                    IF IsIndex(Head(tokens)) /\ i = IndexOf(Head(tokens)) + 1
                    THEN SameButAt(t.a[i], u.a[i], Tail(tokens))
                    ELSE t.a[i] = u.a[i]

C18_SpecializationFailure ==
  (pcall.op = "swap_value_at" /\ ppre.target.type \in {"vector_string", "map_string"}
     /\ pcall.res # "success")
    => IF CollectionCode(CollectionKind(ppre.target.type)) # "success"
         THEN target = ppre.target
       ELSE /\ pcall.res = "cast_failed"
            /\ SlotIsNull
            /\ target.v = IF ppre.target.type = "vector_string"
                             THEN JArr(StringsBefore(CallNode.a))
                           ELSE JObj(MembersBefore(CallNode.o))

\* "/m" on {"k": 3.1415, "m": {"a": "A", "b": 42, "c": "C"}} with a map of
\* strings holding {"z": "z"}: the map is left holding {"a": "A"}.
C18_Witness ==
  /\ pcall.op = "swap_value_at"
  /\ pcall.res = "cast_failed"
  /\ pcall.pointer = <<47, 109>>
  /\ ppre.target = [type |-> "map_string", v |-> JObj(Put(<<>>, <<122>>, JStr(<<122>>)))]
  /\ is_object(CallNode)
  /\ DOMAIN CallNode.o = {<<97>>, <<98>>, <<99>>}
  /\ target.v = JObj(Put(<<>>, <<97>>, JStr(<<65>>)))

-----------------------------------------------------------------------------
(* Claims about the move-in layer *)

\* What the string policy makes of the value a caller moves in: every string
\* payload goes through it, member names and other values are kept.
SanitizedValue(value) ==
  IF value.type = "string" THEN JStr(Sanitized(value.v.s))
  ELSE IF value.type = "vector_string"
    THEN JArr([i \in DOMAIN value.v.a |-> JStr(Sanitized(value.v.a[i].s))])
  ELSE IF value.type = "map_string"
    THEN JObj([k \in DOMAIN value.v.o |-> JStr(Sanitized(value.v.o[k].s))])
  ELSE value.v

\* The last call is a swap_value_at that reads the value of the movein back:
\* same pointer, the tree as the movein left it, a variable of the type of
\* the value moved in.
ReadsBack ==
  /\ pcall.op = "swap_value_at"
  /\ given.res = "success"
  /\ pcall.pointer = given.pointer
  /\ ppre.tree = given.tree
  /\ ppre.target.type = given.value.type

\* Walking tokens down tree t meets the token "-" at an array: the element
\* past the array's end, which an assignment appends and a lookup never
\* finds.
RECURSIVE PastTheEnd(_, _)
PastTheEnd(t, tokens) ==
  IF tokens = <<>> THEN FALSE
  ELSE IF t.kind = "object"
    THEN Head(tokens) \in DOMAIN t.o /\ PastTheEnd(t.o[Head(tokens)], Tail(tokens))
  ELSE IF t.kind = "array"
    THEN \/ Head(tokens) = <<45>>
         \/ /\ IsIndex(Head(tokens))
            /\ IndexOf(Head(tokens)) < Len(t.a)
            /\ PastTheEnd(t.a[IndexOf(Head(tokens)) + 1], Tail(tokens))
  ELSE FALSE

\* C14 as claimed: after a movein that returned success, swap_value_at with
\* the same pointer and a variable of the value's type returns success and
\* the variable holds the value, every string payload S of it being S when
\* S is valid UTF-8 and base64_encode(S) when not.
C14_MoveinReadsBack ==
  ReadsBack => pcall.res = "success" /\ target.v = SanitizedValue(given.value)

\* C14 amended: as claimed for every pointer but those that reach the token
\* "-" at an array; with such a pointer movein appends the value to the
\* array and the swap_value_at that follows returns not_found, leaving tree
\* and variable as they were.
C14_MoveinReadsBackButPastTheEnd ==
  ReadsBack
    => IF PastTheEnd(given.tree, CallTokens)
         THEN pcall.res = "not_found" /\ tree = ppre.tree /\ target = ppre.target
       ELSE pcall.res = "success" /\ target.v = SanitizedValue(given.value)

\* The byte 0xff moved in at "/k" comes back as "/w==".
C14_Witness ==
  /\ ReadsBack
  /\ pcall.res = "success"
  /\ given.pointer = <<47, 107>>
  /\ given.value = [type |-> "string", v |-> JStr(<<255>>)]
  /\ target.v = JStr(<<47, 119, 61, 61>>)

\* C16 as claimed: a call that reports failure leaves the document it was
\* applied to as it was: get_value_at, set_value_at and the typed
\* extractors when the Result is not good, swap_value_at when it returns
\* bad_json_pointer or not_found, movein when it returns bad_json_pointer or
\* cannot_create.
C16_FailureLeavesDocument ==
  /\ (call.op \in {"get_value_at", "set_value_at"} \cup Extractors /\ ~call.good)
       => val = pre
  /\ (pcall.op = "swap_value_at" /\ pcall.res \in {"bad_json_pointer", "not_found"})
       => tree = ppre.tree
  /\ (pcall.op = "movein" /\ pcall.res \in {"bad_json_pointer", "cannot_create"})
       => tree = ppre.tree

====
